---- MODULE Spec2Model ----
(***************************************************************************)
(* Model of tg_to_mastodon_bot.py: a Telegram channel -> Mastodon relay.   *)
(*                                                                         *)
(* The process loads its Config from the environment, builds the Mastodon  *)
(* client and the Telegram application, and then handles one update at a   *)
(* time in forward_to_mastodon.  Every remote or filesystem call of the    *)
(* handler is one step of the model; the result of each call (success or   *)
(* the exception it raises) is chosen by the environment.                  *)
(*                                                                         *)
(* Optional[T] values are sequences: <<>> is None, <<v>> is the value v.   *)
(***************************************************************************)
EXTENDS Integers, Sequences, FiniteSets

\* ---------------------------------------------------------------- bounds
MaxEvents == 2      \* updates delivered to the handler in one run
MaxVariants == 2    \* size variants offered for one photo
NumFiles == 3       \* distinct Telegram file identifiers

\* ------------------------------------------------------------ value sets
None == <<>>
Some(v) == <<v>>

\* Python truthiness of an Optional[str]: None and "" are falsy.
Truthy(opt) == opt # None /\ opt[1] # ""

Texts == {None, Some(""), Some("hello")}
Captions == {None, Some(""), Some("cap")}
Tokens == {"", "secret"}

FileIds == 1..NumFiles
\* telegram.PhotoSize: the variants of one photo have distinct file ids and
\* the platform lists them smallest first.
PhotoSize(i) == [file_id |-> i, width |-> 100 * i]

RECURSIVE Ascending(_)
Ascending(s) ==
    IF Len(s) <= 1 THEN TRUE
    ELSE s[1].width < s[2].width /\ Ascending(Tail(s))

PhotoSeqs ==
    {<<>>} \cup
    UNION {{s \in [1..n -> {PhotoSize(i) : i \in FileIds}] : Ascending(s)}
           : n \in 1..MaxVariants}

\* telegram.Message as far as the handler reads it.
Messages == [text : Texts, photo : PhotoSeqs, caption : Captions]

\* telegram.Update: a new channel post sets channel_post, an edit of a
\* channel post sets edited_channel_post and leaves channel_post None.
Updates ==
    [channel_post : {Some(m) : m \in Messages}, edited_channel_post : {None}]
    \cup
    [channel_post : {None}, edited_channel_post : {Some(m) : m \in Messages}]

effective_message(u) ==
    IF u.channel_post # None THEN u.channel_post[1]
    ELSE u.edited_channel_post[1]

\* filters.ChatType.CHANNEL & (filters.TEXT | filters.PHOTO)
HandlerFilter(u) ==
    \/ Truthy(effective_message(u).text)
    \/ effective_message(u).photo # <<>>

\* f"temp_{photo.file_id}.jpg"
PathOf(file_id) == <<"temp_", file_id, ".jpg">>
Paths == {PathOf(i) : i \in FileIds}

VARIABLES
    env,          \* the three required environment settings
    phase,        \* "start", "loaded", "constructed", "listening", "failed"
    config,       \* Config, once loaded
    client,       \* the Mastodon client's credentials, once constructed
    pc,           \* position of forward_to_mastodon
    update,       \* the update being handled
    photo_path,   \* local of the handler
    media_dict,   \* local of post_media: the id returned by media_post
    exc,          \* exception in flight
    calls,        \* calls made while handling the current update, in order
    logged,       \* logger.error records written for the current update
    outcome,      \* how the last handler invocation ended
    handled,      \* updates delivered so far
    prevFailed,   \* a publish call failed while handling the previous update
    fs,           \* temp files on disk
    uploaded,     \* media ids created on the destination
    attached      \* media ids referenced by a created status

vars == <<env, phase, config, client, pc, update, photo_path, media_dict, exc,
          calls, logged, outcome, handled, prevFailed, fs, uploaded, attached>>

startup == <<env, phase, config, client>>
handler == <<pc, update, photo_path, media_dict, exc, calls, logged, outcome,
             handled, prevFailed>>
world == <<fs, uploaded, attached>>

NoConfig == [telegram_token |-> "", mastodon_token |-> "", mastodon_url |-> ""]
NoClient == [access_token |-> "", api_base_url |-> ""]
NoUpdate == [channel_post |-> None, edited_channel_post |-> None]

\* One entry of the call log.  status is the text of a status_post, path the
\* local file a call works on, file_id the Telegram file a call fetches, ids
\* the media_ids passed to a status_post or the id returned by a media_post,
\* res "ok" or the exception raised.
Call(op, status, path, file_id, ids, res) ==
    [op |-> op, status |-> status, path |-> path, file_id |-> file_id,
     ids |-> ids, res |-> res]

Init ==
    /\ env \in [TELEGRAM_BOT_TOKEN : Tokens, MASTODON_ACCESS_TOKEN : Tokens,
                MASTODON_INSTANCE_URL : Tokens]
    /\ phase = "start"
    /\ config = NoConfig
    /\ client = NoClient
    /\ pc = "idle"
    /\ update = NoUpdate
    /\ photo_path = None
    /\ media_dict = None
    /\ exc = "none"
    /\ calls = <<>>
    /\ logged = 0
    /\ outcome = "none"
    /\ handled = 0
    /\ prevFailed = FALSE
    /\ fs = [p \in Paths |-> "absent"]
    /\ uploaded = {}
    /\ attached = {}

\* ---------------------------------------------------------------- startup
\* Config.from_env: os.getenv(name, '') for the three required settings.
from_env(e) ==
    [telegram_token |-> e.TELEGRAM_BOT_TOKEN,
     mastodon_token |-> e.MASTODON_ACCESS_TOKEN,
     mastodon_url |-> e.MASTODON_INSTANCE_URL]

FromEnv ==
    /\ phase = "start"
    /\ config' = from_env(env)
    /\ phase' = "loaded"
    /\ UNCHANGED <<env, client, handler, world>>

\* TelegramMastodonBot.__init__ / MastodonHandler.__init__
Construct ==
    /\ phase = "loaded"
    /\ client' = [access_token |-> config.mastodon_token,
                  api_base_url |-> config.mastodon_url]
    /\ phase' = "constructed"
    /\ UNCHANGED <<env, config, handler, world>>

\* Application.builder().token(t).build(): the Telegram library rejects an
\* empty token with InvalidToken; nothing else is looked at.
BuildAccepts(cfg) == cfg.telegram_token # ""

\* TelegramMastodonBot.run
Run ==
    /\ phase = "constructed"
    /\ phase' = IF BuildAccepts(config) THEN "listening" ELSE "failed"
    /\ UNCHANGED <<env, config, client, handler, world>>

\* ----------------------------------------------------------- the listener
PublishFailed(cs) ==
    \E i \in 1..Len(cs) :
        cs[i].op \in {"status_post", "media_post"} /\ cs[i].res # "ok"

\* run_polling hands the next matching update to forward_to_mastodon, one
\* update at a time.  The dispatcher of the Telegram library logs an exception
\* that leaves a handler and goes on with the next update.
Deliver(u) ==
    /\ phase = "listening"
    /\ pc = "idle"
    /\ handled < MaxEvents
    /\ HandlerFilter(u)
    /\ update' = u
    /\ pc' = "text"
    /\ photo_path' = None
    /\ media_dict' = None
    /\ exc' = "none"
    /\ prevFailed' = PublishFailed(calls)
    /\ calls' = <<>>
    /\ logged' = 0
    /\ outcome' = "running"
    /\ handled' = handled + 1
    /\ UNCHANGED <<startup, world>>

\* --------------------------------------------------- forward_to_mastodon
\* A call of the Mastodon client succeeds or raises a MastodonError; a client
\* built with an empty token or instance URL cannot succeed.
StatusResults ==
    IF client.access_token = "" \/ client.api_base_url = ""
    THEN {"MastodonError"}
    ELSE {"ok", "MastodonError"}
GetFileResults == {"ok", "TelegramError"}
\* download_to_drive fetches over the network (TelegramError) and writes the
\* local file (OSError).
DownloadResults == {"ok", "TelegramError", "OSError"}

\* message = update.channel_post
message == update.channel_post

\* line 86: if message and message.text
TextGuard(m) == m # None /\ Truthy(m[1].text)

\* Variant of post_text_call that loses the text.
post_text_call_blank(text, res) == Call("status_post", "", None, 0, <<>>, res)

\* MastodonHandler.post_text: self.mastodon.status_post(text)
post_text_call(text, res) == Call("status_post", text, None, 0, <<>>, res)

ForwardText ==
    /\ pc = "text"
    /\ IF TextGuard(message)
       THEN \E res \in StatusResults :
              /\ calls' = Append(calls, post_text_call(message[1].text[1], res))
              /\ IF res = "ok"
                 THEN pc' = "photo" /\ exc' = exc
                 ELSE pc' = "except" /\ exc' = res
       ELSE /\ pc' = "photo"
            /\ UNCHANGED <<calls, exc>>
    /\ UNCHANGED <<update, photo_path, media_dict, logged, outcome, handled,
                   prevFailed, startup, world>>

\* Variant of LargestPhoto that takes the first (smallest) variant.
FirstPhoto(photo) == photo[1]

\* line 90: photo = message.photo[-1]
LargestPhoto(photo) == photo[Len(photo)]

\* lines 89-91: message.photo is read without a check of message itself.
ForwardPhoto ==
    /\ pc = "photo"
    /\ IF message = None
       THEN /\ exc' = "AttributeError"
            /\ pc' = "except"
            /\ UNCHANGED photo_path
       ELSE IF message[1].photo # <<>>
       THEN /\ photo_path' = Some(PathOf(LargestPhoto(message[1].photo).file_id))
            /\ pc' = "get_file"
            /\ UNCHANGED exc
       ELSE /\ pc' = "return"
            /\ UNCHANGED <<photo_path, exc>>
    /\ UNCHANGED <<update, media_dict, calls, logged, outcome, handled,
                   prevFailed, startup, world>>

\* MediaHandler.download_photo, line 42: await bot.get_file(photo.file_id)
GetFile ==
    /\ pc = "get_file"
    /\ \E res \in GetFileResults :
         /\ calls' = Append(calls,
                Call("get_file", "", None,
                     LargestPhoto(message[1].photo).file_id, <<>>, res))
         /\ IF res = "ok"
            THEN pc' = "download_to_drive" /\ exc' = exc
            ELSE pc' = "except" /\ exc' = res
    /\ UNCHANGED <<update, photo_path, media_dict, logged, outcome, handled,
                   prevFailed, startup, world>>

\* Variant of AfterDownloadFailure with the download inside the inner try.
AfterDownloadFailureInTry == "finally"

\* Where control goes when download_photo raises: line 91 is outside the
\* inner try, so the finally clause is not entered.
AfterDownloadFailure == "except"

\* MediaHandler.download_photo, line 43: download_to_drive(photo_path).
\* A failed download leaves the path untouched or partially written.
DownloadToDrive ==
    /\ pc = "download_to_drive"
    /\ \E res \in DownloadResults :
         /\ calls' = Append(calls,
                Call("download_to_drive", "", photo_path,
                     LargestPhoto(message[1].photo).file_id, <<>>, res))
         /\ IF res = "ok"
            THEN /\ fs' = [fs EXCEPT ![photo_path[1]] = "full"]
                 /\ pc' = "media_post"
                 /\ exc' = exc
            ELSE /\ \E left \in {fs[photo_path[1]], "partial"} :
                      fs' = [fs EXCEPT ![photo_path[1]] = left]
                 /\ pc' = AfterDownloadFailure
                 /\ exc' = res
    /\ UNCHANGED <<update, photo_path, media_dict, logged, outcome, handled,
                   prevFailed, startup, uploaded, attached>>

\* The destination numbers uploaded media consecutively.
NewMediaId == Cardinality(uploaded) + 1

\* MastodonHandler.post_media, line 67: media_post(media_path)
MediaPost ==
    /\ pc = "media_post"
    /\ \E res \in StatusResults :
         /\ calls' = Append(calls,
                Call("media_post", "", photo_path, 0,
                     IF res = "ok" THEN <<NewMediaId>> ELSE <<>>, res))
         /\ IF res = "ok"
            THEN /\ media_dict' = Some([id |-> NewMediaId])
                 /\ uploaded' = uploaded \cup {NewMediaId}
                 /\ pc' = "status_post"
                 /\ exc' = exc
            ELSE /\ pc' = "finally"
                 /\ exc' = res
                 /\ UNCHANGED <<media_dict, uploaded>>
    /\ UNCHANGED <<update, photo_path, logged, outcome, handled, prevFailed,
                   startup, fs, attached>>

\* line 69: status=caption or ""
CaptionOrEmpty(caption) == IF Truthy(caption) THEN caption[1] ELSE ""

\* Variant of post_media_status_call that forgets media_ids.
post_media_status_call_noids(caption, md, res) ==
    Call("status_post", CaptionOrEmpty(caption), None, 0, <<>>, res)

\* lines 68-71: status_post(status=caption or "", media_ids=[media_dict['id']])
post_media_status_call(caption, md, res) ==
    Call("status_post", CaptionOrEmpty(caption), None, 0, <<md[1].id>>, res)

StatusPostMedia ==
    /\ pc = "status_post"
    /\ \E res \in StatusResults :
         LET c == post_media_status_call(message[1].caption, media_dict, res) IN
         /\ calls' = Append(calls, c)
         /\ IF res = "ok"
            THEN /\ attached' = attached \cup {c.ids[i] : i \in 1..Len(c.ids)}
                 /\ exc' = exc
            ELSE /\ exc' = res
                 /\ UNCHANGED attached
         /\ pc' = "finally"
    /\ UNCHANGED <<update, photo_path, media_dict, logged, outcome, handled,
                   prevFailed, startup, fs, uploaded>>

\* Variant of cleanup_media that never removes the file.
cleanup_media_keep(fsys, path) == fsys

\* MediaHandler.cleanup_media: if os.path.exists(p): os.remove(p)
cleanup_media(fsys, path) ==
    IF fsys[path] # "absent" THEN [fsys EXCEPT ![path] = "absent"] ELSE fsys

\* lines 95-96: finally: cleanup_media(photo_path); a pending exception then
\* continues to the handler's except clause.
Finally ==
    /\ pc = "finally"
    /\ calls' = Append(calls, Call("cleanup_media", "", photo_path, 0, <<>>, "ok"))
    /\ fs' = cleanup_media(fs, photo_path[1])
    /\ pc' = IF exc = "none" THEN "return" ELSE "except"
    /\ UNCHANGED <<update, photo_path, media_dict, exc, logged, outcome,
                   handled, prevFailed, startup, uploaded, attached>>

\* Variants of Catches with one exception class missing from the tuple.
CatchesOnlyTelegram(e) == e \in {"TelegramError"}
CatchesOnlyMastodon(e) == e \in {"MastodonError"}

\* line 98: except (Mastodon.MastodonError, telegram.error.TelegramError)
Catches(e) == e \in {"MastodonError", "TelegramError"}

\* lines 98-99: a caught exception is logged and the handler returns; any
\* other exception leaves the handler.
Except ==
    /\ pc = "except"
    /\ IF Catches(exc)
       THEN logged' = logged + 1 /\ outcome' = "returned"
       ELSE logged' = logged /\ outcome' = "raised"
    /\ pc' = "idle"
    /\ UNCHANGED <<update, photo_path, media_dict, exc, calls, handled,
                   prevFailed, startup, world>>

\* The try block ran to its end.
Return ==
    /\ pc = "return"
    /\ outcome' = "returned"
    /\ pc' = "idle"
    /\ UNCHANGED <<update, photo_path, media_dict, exc, calls, logged, handled,
                   prevFailed, startup, world>>

Next ==
    \/ FromEnv
    \/ Construct
    \/ Run
    \/ \E u \in Updates : Deliver(u)
    \/ ForwardText
    \/ ForwardPhoto
    \/ GetFile
    \/ DownloadToDrive
    \/ MediaPost
    \/ StatusPostMedia
    \/ Finally
    \/ Except
    \/ Return

Spec == Init /\ [][Next]_vars

TypeOK ==
    /\ phase \in {"start", "loaded", "constructed", "listening", "failed"}
    /\ pc \in {"idle", "text", "photo", "get_file", "download_to_drive",
               "media_post", "status_post", "finally", "except", "return"}
    /\ update \in Updates \cup {NoUpdate}
    /\ photo_path \in {None} \cup {Some(p) : p \in Paths}
    /\ exc \in {"none", "MastodonError", "TelegramError", "OSError",
                "AttributeError"}
    /\ outcome \in {"none", "running", "returned", "raised"}
    /\ handled \in 0..MaxEvents
    /\ fs \in [Paths -> {"absent", "partial", "full"}]
    /\ attached \subseteq uploaded

\* ------------------------------------------------- vocabulary of the claims
\* forward_to_mastodon has finished for the update in `update`.
Done == pc = "idle" /\ handled > 0

Idx == 1..Len(calls)
CallsOf(op) == {i \in Idx : calls[i].op = op}
\* publishText: a status_post without media.  publishMedia: post_media, whose
\* first call is media_post; its status_post carries media_ids.
TextPosts == {i \in Idx : calls[i].op = "status_post" /\ calls[i].ids = <<>>}
MediaStatusPosts == {i \in Idx : calls[i].op = "status_post" /\ calls[i].ids # <<>>}
Failed(op) == \E i \in CallsOf(op) : calls[i].res # "ok"
Succeeded(op) == \E i \in CallsOf(op) : calls[i].res = "ok"
DownloadFailed == Failed("get_file") \/ Failed("download_to_drive")

HasPost == message # None
HasText == HasPost /\ message[1].text \notin {None, Some("")}
HasPhoto == HasPost /\ Len(message[1].photo) > 0

\* The variant of the post's photo with the greatest width.
IsLargest(ph) ==
    /\ \E i \in 1..Len(message[1].photo) : message[1].photo[i] = ph
    /\ \A i \in 1..Len(message[1].photo) : message[1].photo[i].width <= ph.width

\* The caption of the post, "" when it is absent.
CaptionText ==
    IF message[1].caption = None THEN "" ELSE message[1].caption[1]

\* C1: a post with non-empty text and no photo leads to exactly one
\* status_post call, carrying exactly the post's text and no media, and to no
\* get_file, download, media_post or cleanup call, at any point of the
\* handling and when the handler has finished.
C1_TextOnly ==
    (handled > 0 /\ HasText /\ ~HasPhoto) =>
        /\ CallsOf("get_file") = {}
        /\ CallsOf("download_to_drive") = {}
        /\ CallsOf("media_post") = {}
        /\ MediaStatusPosts = {}
        /\ Done =>
            /\ Len(calls) = 1
            /\ calls[1].op = "status_post"
            /\ calls[1].status = message[1].text[1]
            /\ calls[1].ids = <<>>

C1_Witness ==
    /\ Done /\ HasText /\ ~HasPhoto
    /\ Len(calls) = 1 /\ calls[1].res = "ok" /\ calls[1].status = "hello"
    /\ outcome = "returned"

\* C2 as stated: a post with a photo and no text leads to exactly one
\* post_media call, for the file of the largest variant, and to no text post.
C2_Original ==
    (Done /\ HasPhoto /\ ~HasText) =>
        /\ Cardinality(CallsOf("media_post")) = 1
        /\ \A i \in CallsOf("media_post") :
             \E ph \in {PhotoSize(f) : f \in FileIds} :
                IsLargest(ph) /\ calls[i].path = Some(PathOf(ph.file_id))
        /\ TextPosts = {}

\* C2 amended: a post with a photo and no text leads to exactly one download
\* attempt, for the largest variant (the last of the sequence), and to no
\* text post; when that download succeeds there is exactly one post_media
\* call, on the downloaded file, whose status is the caption or "" when the
\* caption is absent; when the download fails there is no post_media call.
C2_PhotoOnly ==
    (Done /\ HasPhoto /\ ~HasText) =>
        /\ TextPosts = {}
        /\ Cardinality(CallsOf("get_file")) = 1
        /\ \A i \in CallsOf("get_file") \cup CallsOf("download_to_drive") :
             /\ IsLargest(PhotoSize(calls[i].file_id))
             /\ calls[i].file_id =
                  message[1].photo[Len(message[1].photo)].file_id
        /\ IF Succeeded("download_to_drive")
           THEN /\ Cardinality(CallsOf("media_post")) = 1
                /\ \A i \in CallsOf("media_post") :
                     /\ calls[i - 1].op = "download_to_drive"
                     /\ calls[i].path = calls[i - 1].path
                     /\ calls[i].path = Some(PathOf(calls[i - 1].file_id))
                /\ \A i \in CallsOf("media_post") :
                     calls[i].res = "ok" =>
                        Cardinality(MediaStatusPosts) = 1
                /\ \A i \in MediaStatusPosts : calls[i].status = CaptionText
           ELSE /\ CallsOf("media_post") = {}
                /\ MediaStatusPosts = {}

C2_Witness ==
    /\ Done /\ HasPhoto /\ ~HasText
    /\ Len(message[1].photo) = 2
    /\ message[1].caption = None
    /\ Succeeded("download_to_drive")
    /\ \E i \in MediaStatusPosts : calls[i].res = "ok" /\ calls[i].status = ""

\* C3: a post with both non-empty text and a photo leads to a text post and
\* to a media post whatever the outcome of the other: the download is
\* attempted, and post_media follows a successful download, also when the
\* text post failed.
C3_BothIndependent ==
    (Done /\ HasText /\ HasPhoto) =>
        /\ Cardinality(TextPosts) = 1
        /\ Cardinality(CallsOf("get_file")) = 1
        /\ Succeeded("download_to_drive") =>
              Cardinality(CallsOf("media_post")) = 1

\* C4: every successful download is followed, before the handler ends, by
\* exactly one cleanup_media of the same path, whether post_media succeeded,
\* failed at the upload or failed at the status post; no cleanup happens
\* without a successful download; once the handler has ended the temp file
\* of a successful download does not exist.
C4_Lifecycle ==
    /\ \A j \in CallsOf("cleanup_media") :
         \E i \in CallsOf("download_to_drive") :
            i < j /\ calls[i].res = "ok" /\ calls[i].path = calls[j].path
    /\ Done =>
         \A i \in CallsOf("download_to_drive") :
            calls[i].res = "ok" =>
               /\ Cardinality({j \in CallsOf("cleanup_media") :
                      j > i /\ calls[j].path = calls[i].path}) = 1
               /\ Cardinality(CallsOf("cleanup_media")) = 1
               /\ fs[calls[i].path[1]] = "absent"

C4_Witness ==
    /\ Done
    /\ Succeeded("download_to_drive")
    /\ \E i \in MediaStatusPosts : calls[i].res = "MastodonError"
    /\ CallsOf("cleanup_media") # {}
    /\ fs[photo_path[1]] = "absent"

\* What forward_to_mastodon calls for update u, given the results rs of its
\* calls in order: stated from the update alone, earlier updates play no part.
ResultAt(rs, i) == IF i <= Len(rs) THEN rs[i] ELSE "missing"

ExpectedOps(u, rs) ==
    LET m == u.channel_post
        t == m # None /\ m[1].text \notin {None, Some("")}
        pre == IF t THEN <<"status_post">> ELSE <<>>
        k == Len(pre)
        textOk == ~t \/ ResultAt(rs, 1) = "ok"
        ph == m # None /\ m[1].photo # <<>>
    IN  pre \o
        (IF ~textOk \/ ~ph THEN <<>>
         ELSE IF ResultAt(rs, k + 1) # "ok" THEN <<"get_file">>
         ELSE IF ResultAt(rs, k + 2) # "ok"
              THEN <<"get_file", "download_to_drive">>
         ELSE IF ResultAt(rs, k + 3) # "ok"
              THEN <<"get_file", "download_to_drive", "media_post",
                     "cleanup_media">>
         ELSE <<"get_file", "download_to_drive", "media_post", "status_post",
                "cleanup_media">>)

\* C5: when a status_post or media_post call fails while an update is
\* handled, the handler logs the error and returns normally, the listener is
\* still listening and accepts every matching update next; and the update
\* handled after such a failure gets exactly the calls its own content and
\* call results determine.
C5_NextEventProceeds ==
    /\ (Done /\ PublishFailed(calls)) =>
          /\ outcome = "returned"
          /\ logged = 1
          /\ phase = "listening"
          /\ handled < MaxEvents =>
                \A u \in Updates : HandlerFilter(u) => ENABLED Deliver(u)
    /\ (Done /\ prevFailed) =>
          [i \in Idx |-> calls[i].op] =
             ExpectedOps(update, [i \in Idx |-> calls[i].res])

C5_Witness ==
    /\ Done /\ prevFailed /\ handled = 2
    /\ outcome = "returned"
    /\ Len(calls) = 6
    /\ \A i \in Idx : calls[i].res = "ok"

\* C6: the process is never listening with an empty required setting in its
\* Config.
C6_FailFast ==
    phase = "listening" =>
        /\ config.telegram_token # ""
        /\ config.mastodon_token # ""
        /\ config.mastodon_url # ""

C8_NoOp ==
    (Done /\ (~HasPost \/ (~HasText /\ ~HasPhoto))) =>
        calls = <<>> /\ outcome = "returned"

\* C9: post_media uploads first and then posts a status that references
\* exactly the id that upload returned; the status post happens only after a
\* successful upload; there is one upload and one status post at most; when
\* the status post fails after a successful upload the uploaded media stays
\* on the destination referenced by no status, and nothing but the cleanup
\* of the local file follows.
C9_UploadThenStatus ==
    /\ Cardinality(CallsOf("media_post")) <= 1
    /\ Cardinality(MediaStatusPosts) <= 1
    /\ \A i \in CallsOf("media_post") :
         /\ calls[i].res = "ok" =>
               /\ Len(calls[i].ids) = 1
               /\ calls[i].ids[1] \in uploaded
               /\ i < Len(calls) =>
                     calls[i + 1].op = "status_post" /\
                     calls[i + 1].ids = calls[i].ids
         /\ calls[i].res # "ok" =>
               \A j \in Idx : j > i => calls[j].op = "cleanup_media"
    /\ \A j \in MediaStatusPosts :
         /\ j > 1
         /\ calls[j - 1].op = "media_post"
         /\ calls[j - 1].res = "ok"
         /\ calls[j].ids = calls[j - 1].ids
         /\ calls[j].res = "ok" => calls[j].ids[1] \in attached
         /\ calls[j].res # "ok" =>
               /\ calls[j].ids[1] \in uploaded \ attached
               /\ \A k \in Idx : k > j => calls[k].op = "cleanup_media"
    /\ (Done /\ Succeeded("media_post")) =>
          Cardinality(MediaStatusPosts) = 1

C9_Witness ==
    /\ Done
    /\ \E j \in MediaStatusPosts :
         /\ calls[j].res = "MastodonError"
         /\ calls[j].ids[1] \in uploaded \ attached
    /\ calls[Len(calls)].op = "cleanup_media"

C10_FileLeft == (pc = "except" /\ DownloadFailed) => fs' = fs

====
